---- MODULE Spec2Model ----
(***************************************************************************)
(* Model of the district (shard) loading manager of src/map.js: the        *)
(* manifest load of initialize/loadDistrictIndex, the load cycle of        *)
(* loadVisibleDistricts, the chunked ingestion of loadDistrict and the     *)
(* moveend/zoomend handler.  JavaScript runs each handler to its next      *)
(* await on a single thread, so one action is one run of code between two  *)
(* suspension points (a settled fetch, a settled json(), an expired        *)
(* setTimeout(0)) or one delivery of a map event.                          *)
(***************************************************************************)
EXTENDS Integers, Sequences, FiniteSets, TLC

\* src/map.js:108  const chunkSize = 500
chunkSize == 500

\* Largest number of districts a manifest lists.
MaxShards == 2

\* Largest number of moveend/zoomend events delivered in a session.
MaxMoves == 2

VARIABLES
    initPc,           \* where initialize() stands
    index,            \* districtState.index
    loadedDistricts,  \* districtState.loadedDistricts
    districtLayers,   \* districtState.districtLayers (its keys)
    isLoading,        \* districtState.isLoading
    loadingProgress,  \* loadingProgress.textContent
    markersLayer,     \* the batches handed to markers.addLayers, in call order
    cycles,           \* the suspended invocations of loadVisibleDistricts
    files,            \* the feature collection each district file holds
    moves,            \* moveend/zoomend events delivered so far
    requests,         \* fetches issued per district code
    abortedAt,        \* the event count at which initialize gave up, -1 before
    props,            \* the properties of the feature whose marker was clicked
    popupContent      \* the attributes the click handler resolved, NoPopup before

vars == <<initPc, index, loadedDistricts, districtLayers, isLoading, loadingProgress,
          markersLayer, cycles, files, moves, requests, abortedAt, props, popupContent>>

\* The state of the click handler of lines 127-152.
popup == <<props, popupContent>>

Codes == 1..MaxShards

\* districtState.index before line 75 assigns it.
Null == [isNull |-> TRUE, districts |-> << >>]

\* Line 75: the parsed manifest with its districts array.
Manifest(cat) == [isNull |-> FALSE, districts |-> cat]

\* Line 250: the text of loadingProgress before any report.
Preparing == [text |-> "Preparando datos...", loaded |-> 0, total |-> 0, percentage |-> 0]

(***************************************************************************)
(* Inputs: manifests and district files.                                   *)
(***************************************************************************)

\* The districts arrays a manifest can carry: distinct codes in any order.
Catalogs ==
    UNION { { s \in [1..n -> Codes] : \A a, b \in 1..n : a # b => s[a] # s[b] }
            : n \in 0..MaxShards }

\* A feature as lines 111-114 see it:
\*   "valid"    geometry.coordinates = [lng, lat]
\*   "triple"   geometry.coordinates = [lng, lat, alt]
\*   "nogeom"   geometry absent or null
\*   "nocoords" geometry present, coordinates absent or null
\*   "scalar"   geometry.coordinates a truthy value that is not iterable (a number)
FeatureKinds == {"valid", "triple", "nogeom", "nocoords", "scalar"}

DatasetNames == {"few", "five", "noisy", "chunk", "brokenLate", "twoChunks"}

\* data.features of each district file.
Features(ds) ==
    CASE ds = "few"        -> <<"valid", "valid", "valid">>
      [] ds = "five"       -> <<"valid", "valid", "valid", "valid", "valid">>
      [] ds = "noisy"      -> <<"valid", "nogeom", "triple", "nocoords", "valid">>
      [] ds = "chunk"      -> [k \in 1..(chunkSize + 2) |-> "valid"]
      [] ds = "brokenLate" -> [k \in 1..(chunkSize + 3) |->
                                 IF k = chunkSize + 2 THEN "scalar" ELSE "valid"]
      [] ds = "twoChunks"  -> [k \in 1..(2 * chunkSize + 1) |->
                                 IF k = chunkSize + 1 THEN "nocoords" ELSE "valid"]

\* The files in the order the sessions deal them out.
DatasetOrder == <<"few", "five", "noisy", "chunk", "brokenLate", "twoChunks">>

\* The district files of a session: district c holds file c + w of
\* DatasetOrder (cyclically), so that every district holds every file in some
\* session and neighbouring districts hold different files.
Worlds ==
    { [c \in Codes |-> DatasetOrder[((c + w) % Len(DatasetOrder)) + 1]]
      : w \in 0..(Len(DatasetOrder) - 1) }

(***************************************************************************)
(* Pure parts of the code.                                                 *)
(***************************************************************************)

\* An entry of a cycle's event record.
Ev(e, c, n) == [ev |-> e, code |-> c, n |-> n]

\* The render point made of feature i (0-based) of district code.
Marker(code, i) == <<code, i>>

\* Line 113: feature.geometry && feature.geometry.coordinates
HasCoordinates(feature) == feature \in {"valid", "triple", "scalar"}

\* Line 114: const [lng, lat] = coordinates throws a TypeError on a non-iterable.
Destructures(feature) == feature # "scalar"

\* Line 158: i > 0 && i % chunkSize === 0
ChunkBoundary(i) == i > 0 /\ i % chunkSize = 0

\* Lines 110-164: one iteration of the for loop of loadDistrict, at index st.i
\* with districtMarkers = st.buf.  It leaves the loop running ("run", i + 1),
\* suspended in yieldToMain with the chunk st.buf to flush ("yield"), or thrown
\* into the catch of line 176 ("throw").
LoopBody(st, feats, code) ==
    LET feature == feats[st.i + 1] IN
    IF HasCoordinates(feature) /\ ~Destructures(feature)
    THEN [st EXCEPT !.out = "throw"]
    ELSE LET pushed == IF HasCoordinates(feature)
                       THEN Append(st.buf, Marker(code, st.i))
                       ELSE st.buf
         IN  IF ChunkBoundary(st.i)
             THEN [out |-> "yield", i |-> st.i, buf |-> pushed]
             ELSE [out |-> "run", i |-> st.i + 1, buf |-> pushed]

\* Line 110: at most n iterations of the loop from st, stopping where the loop
\* condition fails or the body suspends or throws (the iterations are split
\* in halves to keep the evaluation shallow).
RECURSIVE Iterate(_, _, _, _)
Iterate(st, feats, code, n) ==
    IF n = 0 \/ st.out # "run" \/ st.i >= Len(feats) THEN st
    ELSE IF n = 1 THEN LoopBody(st, feats, code)
    ELSE LET h == n \div 2
             half == Iterate(st, feats, code, h)
         IN  IF half.out # "run" THEN half ELSE Iterate(half, feats, code, n - h)

\* Lines 110-164: the loop from index i with districtMarkers = buf, up to its
\* next suspension: "yield", "throw", or "end" when the loop ran out.
IngestFrom(feats, code, i, buf) ==
    LET st == Iterate([out |-> "run", i |-> i, buf |-> buf], feats, code, Len(feats) - i)
    IN  IF st.out = "run" THEN [st EXCEPT !.out = "end"] ELSE st

\* The indices at which the loop of a district file starts or resumes: 0 and
\* the index after each chunk boundary.
ResumePoints(ds) ==
    {0} \cup {i + 1 : i \in {j \in 0..Len(Features(ds)) : ChunkBoundary(j)}}

\* IngestFrom with an empty districtMarkers, tabulated for every district,
\* file and resume point.
Runs ==
    [code \in Codes |->
       [ds \in DatasetNames |->
          [i \in ResumePoints(ds) |-> IngestFrom(Features(ds), code, i, << >>)]]]

\* The zoom levels map.getZoom() returns in the sessions: below the level
\* that line 187 compares with, that level, and the level of the initial view
\* (line 1).
Zooms == {10, 11, 12}

getVisibleDistricts_filtered(idx, zoom) ==
    IF idx.isNull THEN << >>
    ELSE IF zoom < 11 THEN idx.districts
    ELSE IF idx.districts = << >> THEN << >>
    ELSE <<idx.districts[1]>>

\* Lines 181-192: the districts to consider at a zoom level; both branches
\* of line 187 return the full list.
getVisibleDistricts(idx, zoom) ==
    IF idx.isNull THEN << >>
    ELSE IF zoom < 11 THEN idx.districts
    ELSE idx.districts

\* Line 209: Math.round((loaded / total) * 100)
Percentage(loaded, total) == (200 * loaded + total) \div (2 * total)

Progress_stale(loaded, idx) ==
    [text |-> "Distritos",
     loaded |-> IF loaded = {} THEN 0 ELSE Cardinality(loaded) - 1,
     total  |-> Len(idx.districts),
     percentage |-> Percentage(IF loaded = {} THEN 0 ELSE Cardinality(loaded) - 1,
                               Len(idx.districts))]

\* Lines 207-210: the progress text.
Progress(loaded, idx) ==
    [text |-> "Distritos",
     loaded |-> Cardinality(loaded),
     total  |-> Len(idx.districts),
     percentage |-> Percentage(Cardinality(loaded), Len(idx.districts))]

CycleInProgress_never == FALSE

CycleInProgress_fetching == \E t \in DOMAIN cycles : cycles[t].pc \in {"fetch", "json"}

\* Line 195: the re-entrancy test.
CycleInProgress == isLoading

HandlerRegistered_early == TRUE

HandlerRegistered_never == FALSE

\* Lines 253-257 and 267: the moveend/zoomend handler exists once initialize
\* has passed the manifest check.
HandlerRegistered == initPc = "ready"

Has_never(loaded, code) == FALSE

\* Lines 93 and 204: loadedDistricts.has(code)
Has(loaded, code) == code \in loaded

MarkLoaded_replace(loaded, code) == {code}

\* Line 172: loadedDistricts.add(districtCode)
MarkLoaded(loaded, code) == loaded \cup {code}

OnError_marks(loaded, code) == loaded \cup {code}

\* Lines 176-178: the catch of loadDistrict logs and leaves loadedDistricts alone.
OnError(loaded, code) == loaded

FinalFlush_dropped(layer, buf) == layer

FinalFlush_prepended(layer, buf) == IF Len(buf) > 0 THEN <<buf>> \o layer ELSE layer

\* Lines 167-169: the remaining markers are added when there are any.
FinalFlush(layer, buf) == IF Len(buf) > 0 THEN Append(layer, buf) ELSE layer

RECURSIVE NextMissing_last(_, _, _)
NextMissing_last(visible, j, loaded) ==
    IF j >= Len(visible) THEN j
    ELSE LET later == NextMissing_last(visible, j + 1, loaded) IN
         IF later < Len(visible) THEN later
         ELSE IF ~Has(loaded, visible[j + 1]) THEN j ELSE later

\* Lines 201-204: the first index from j on whose district is not loaded, or
\* the length of the list.
RECURSIVE NextMissing(_, _, _)
NextMissing(visible, j, loaded) ==
    IF j >= Len(visible) THEN j
    ELSE IF ~Has(loaded, visible[j + 1]) THEN j
    ELSE NextMissing(visible, j + 1, loaded)

\* Lines 207-213: after loadDistrict returns, progress is reported and the
\* cycle awaits yieldToMain.
AfterLoadDistrict(task, loaded, idx) ==
    [task EXCEPT !.pc = "between",
                 !.log = @ \o <<Ev("progress", Progress(loaded, idx).loaded,
                                   Progress(loaded, idx).total),
                                Ev("pause", 0, 0)>>]

Failed_break(task, code) ==
    [task EXCEPT !.log = Append(@, Ev("fail", code, 0)), !.i = Len(task.visible)]

\* Lines 176-178: loadDistrict catches the error and returns normally.
Failed(task, code) ==
    [task EXCEPT !.log = Append(@, Ev("fail", code, 0))]

Advance_once(task, j, loaded, idx) ==
    IF j > 0 THEN [task EXCEPT !.pc = "done", !.i = Len(task.visible)]
    ELSE LET k == NextMissing(task.visible, j, loaded) IN
         IF k >= Len(task.visible)
         THEN [task EXCEPT !.pc = "done", !.i = k]
         ELSE [task EXCEPT !.pc = "fetch", !.i = k,
                           !.log = Append(@, Ev("fetch", task.visible[k + 1], 0))]

\* Lines 201-205 and 90-100: the loop of loadVisibleDistricts from index j until
\* it awaits the fetch of a district ("fetch"), awaits yieldToMain after a
\* loadDistrict that returned at line 94 ("between"), or runs out ("done").
Advance(task, j, loaded, idx) ==
    LET k == NextMissing(task.visible, j, loaded) IN
    IF k >= Len(task.visible)
    THEN [task EXCEPT !.pc = "done", !.i = k]
    ELSE IF Has(loaded, task.visible[k + 1])
    THEN AfterLoadDistrict([task EXCEPT !.i = k], loaded, idx)
    ELSE [task EXCEPT !.pc = "fetch", !.i = k,
                      !.log = Append(@, Ev("fetch", task.visible[k + 1], 0))]

\* Lines 110-174 and 207-213 from feature index i: what one run of the
\* ingestion loop leaves behind.
Ingest(task, code, ds, i, layer, loaded, idx) ==
    LET r == Runs[code][ds][i] IN
    CASE r.out = "yield" ->
           [task |-> [task EXCEPT !.pc = "chunk", !.fi = r.i,
                                  !.log = @ \o <<Ev("flush", code, Len(r.buf)),
                                                 Ev("yield", code, 0)>>],
            layer |-> Append(layer, r.buf),
            loaded |-> loaded]
      [] r.out = "end" ->
           LET done == MarkLoaded(loaded, code)
               flushed == FinalFlush(layer, r.buf)
           IN  [task |-> AfterLoadDistrict(
                            [task EXCEPT !.fi = r.i,
                                         !.log = @ \o (IF flushed # layer
                                                       THEN <<Ev("flush", code, Len(r.buf))>>
                                                       ELSE << >>)
                                                   \o <<Ev("ok", code, 0)>>],
                            done, idx),
                layer |-> flushed,
                loaded |-> done]
      [] r.out = "throw" ->
           [task |-> AfterLoadDistrict([Failed(task, code) EXCEPT !.fi = r.i],
                                       OnError(loaded, code), idx),
            layer |-> layer,
            loaded |-> OnError(loaded, code)]

\* The sequence s without its element t.
Remove(s, t) == [k \in 1..(Len(s) - 1) |-> IF k < t THEN s[k] ELSE s[k + 1]]

(***************************************************************************)
(* The click handler of a marker (lines 115, 127-134).                     *)
(***************************************************************************)

\* The property keys the handler reads.
Keys == {"sn", "species", "Nombre científico", "cn", "common_name", "CODIGO_ESP",
         "d", "diameter", "h", "height", "dt", "NBRE_DTO", "nb", "NBRE_BARRI"}

\* What a property can hold, as the || of JavaScript sees it:
\*   "absent"  the key is missing (undefined)
\*   "null"    null
\*   "empty"   the empty string
\*   "zero"    the number 0
\*   "text"    a non-empty string or a non-zero number
ValueKinds == {"absent", "null", "empty", "zero", "text"}

\* Line 115: feature.properties || {} of a feature without properties.
NoProperties == [k \in Keys |-> "absent"]

\* popupContent before any click.
NoPopup == [species |-> << >>, commonName |-> << >>, diameter |-> << >>,
            height |-> << >>, district |-> << >>, neighborhood |-> << >>]

\* props.key: where the value comes from and what it is.
Prop(p, key) == [from |-> key, val |-> p[key], unit |-> ""]

\* A string literal of the handler.
Literal(text) == [from |-> "literal", val |-> text, unit |-> ""]

\* ToBoolean of a value.
Truthy(v) == v.val \notin {"absent", "null", "empty", "zero", ""}

Or_last(a, b) == IF Truthy(b) THEN b ELSE a

\* a || b
Or(a, b) == IF Truthy(a) THEN a ELSE b

\* Lines 130-131: x ? `${x} unit` : "N/A"
WithUnit(x, unit) == IF Truthy(x) THEN [x EXCEPT !.unit = unit] ELSE Literal("N/A")

\* Lines 128-133: the attributes the click handler resolves from props.
Resolve(p) ==
    [species      |-> Or(Or(Or(Prop(p, "sn"), Prop(p, "species")),
                            Prop(p, "Nombre científico")),
                         Literal("Especie desconocida")),
     commonName   |-> Or(Or(Or(Prop(p, "cn"), Prop(p, "common_name")),
                            Prop(p, "CODIGO_ESP")),
                         Literal("")),
     diameter     |-> WithUnit(Or(Prop(p, "d"), Prop(p, "diameter")), "cm"),
     height       |-> WithUnit(Or(Prop(p, "h"), Prop(p, "height")), "m"),
     district     |-> Or(Or(Prop(p, "dt"), Prop(p, "NBRE_DTO")), Literal("")),
     neighborhood |-> Or(Or(Prop(p, "nb"), Prop(p, "NBRE_BARRI")), Literal(""))]

\* The keys of each group, every other key being absent, with every value.
Varying(group) ==
    {[k \in Keys |-> IF k \in group THEN f[k] ELSE "absent"] : f \in [group -> ValueKinds]}

\* The properties of the features clicked: the keys of one attribute vary over
\* every value, alone or together with the short keys of the others.
PropertySets ==
    UNION {Varying(g) : g \in {{"sn", "species", "Nombre científico"},
                                {"cn", "common_name", "CODIGO_ESP"},
                                {"d", "diameter", "h"},
                                {"h", "height", "d"},
                                {"dt", "NBRE_DTO", "nb"},
                                {"nb", "NBRE_BARRI", "dt"}}}

(***************************************************************************)
(* State machine.                                                          *)
(***************************************************************************)

Init ==
    /\ initPc = "manifestFetch"
    /\ index = Null
    /\ loadedDistricts = {}
    /\ districtLayers = {}
    /\ isLoading = FALSE
    /\ loadingProgress = Preparing
    /\ markersLayer = << >>
    /\ cycles = << >>
    /\ files \in Worlds
    /\ moves = 0
    /\ requests = [c \in Codes |-> 0]
    /\ abortedAt = -1
    /\ props = NoProperties
    /\ popupContent = NoPopup

Proceed_flagKeptOnFailure(t, task, loaded, idx) ==
    /\ cycles' = IF task.pc = "done"
                 THEN (IF t = 0 THEN cycles ELSE Remove(cycles, t))
                 ELSE (IF t = 0 THEN Append(cycles, task) ELSE [cycles EXCEPT ![t] = task])
    /\ isLoading' = IF task.pc = "done"
                    THEN \E p \in 1..Len(task.log) : task.log[p].ev = "fail"
                    ELSE (IF t = 0 THEN TRUE ELSE isLoading)
    /\ requests' = IF task.pc = "fetch"
                   THEN [requests EXCEPT ![task.visible[task.i + 1]] = @ + 1]
                   ELSE requests
    /\ loadingProgress' = IF task.pc = "between" THEN Progress(loaded, idx)
                          ELSE loadingProgress

\* What a run of the loop of loadVisibleDistricts that left the cycle as task
\* does to the cycle t (0 for a new one), the flag, the progress text and the
\* request count.
Proceed(t, task, loaded, idx) ==
    /\ cycles' = IF task.pc = "done"
                 THEN (IF t = 0 THEN cycles ELSE Remove(cycles, t))
                 ELSE (IF t = 0 THEN Append(cycles, task) ELSE [cycles EXCEPT ![t] = task])
    /\ isLoading' = IF task.pc = "done" THEN FALSE ELSE (IF t = 0 THEN TRUE ELSE isLoading)
    /\ requests' = IF task.pc = "fetch"
                   THEN [requests EXCEPT ![task.visible[task.i + 1]] = @ + 1]
                   ELSE requests
    /\ loadingProgress' = IF task.pc = "between" THEN Progress(loaded, idx)
                          ELSE loadingProgress

\* Lines 194-205: an invocation of loadVisibleDistricts at event count now, with
\* the map at some zoom level, up to its first await.
LoadVisibleDistricts(idx, now) ==
    IF CycleInProgress
    THEN UNCHANGED <<isLoading, cycles, requests, loadingProgress>>
    ELSE \E zoom \in Zooms :
            Proceed(0,
                    Advance([visible |-> getVisibleDistricts(idx, zoom), i |-> 0,
                             pc |-> "start", fi |-> 0, log |-> << >>,
                             before |-> loadedDistricts, born |-> now],
                            0, loadedDistricts, idx),
                    loadedDistricts, idx)

\* Lines 71-73 and 78-81: the manifest fetch settles.
ManifestFetchSettled ==
    /\ initPc = "manifestFetch"
    /\ \E outcome \in {"neterr", "http", "ok"} :
          /\ initPc' = IF outcome = "ok" THEN "manifestJson" ELSE "aborted"
          /\ abortedAt' = IF outcome = "ok" THEN abortedAt ELSE moves
    /\ UNCHANGED <<index, loadedDistricts, districtLayers, isLoading, loadingProgress,
                   markersLayer, cycles, files, moves, requests>>
    /\ UNCHANGED popup

\* Lines 75-81 and 252-257: response.json() rejects.
ManifestJsonRejected ==
    /\ initPc = "manifestJson"
    /\ initPc' = "aborted"
    /\ abortedAt' = moves
    /\ UNCHANGED <<index, loadedDistricts, districtLayers, isLoading, loadingProgress,
                   markersLayer, cycles, files, moves, requests>>
    /\ UNCHANGED popup

\* Lines 75-81 and 252-257: the payload parses and is stored, but has no
\* total_trees, so line 76 throws and loadDistrictIndex returns false.
ManifestIncomplete ==
    /\ initPc = "manifestJson"
    /\ \E cat \in Catalogs : index' = Manifest(cat)
    /\ initPc' = "aborted"
    /\ abortedAt' = moves
    /\ UNCHANGED <<loadedDistricts, districtLayers, isLoading, loadingProgress,
                   markersLayer, cycles, files, moves, requests>>
    /\ UNCHANGED popup

\* Lines 75-77 and 252-274: the manifest is stored, the initial cycle is
\* started and the moveend/zoomend handler is registered.
ManifestLoaded ==
    /\ initPc = "manifestJson"
    /\ \E cat \in Catalogs :
          /\ index' = Manifest(cat)
          /\ LoadVisibleDistricts(index', moves)
    /\ initPc' = "ready"
    /\ UNCHANGED <<loadedDistricts, districtLayers, markersLayer, files, moves, abortedAt>>
    /\ UNCHANGED popup

\* Lines 267-269: a moveend/zoomend event of the map.
ViewportChange ==
    /\ moves < MaxMoves
    /\ moves' = moves + 1
    /\ IF HandlerRegistered
       THEN LoadVisibleDistricts(index, moves + 1)
       ELSE UNCHANGED <<isLoading, cycles, requests, loadingProgress>>
    /\ UNCHANGED <<initPc, index, loadedDistricts, districtLayers, markersLayer, files,
                   abortedAt>>
    /\ UNCHANGED popup

\* What a run of loadDistrict with result r does to the state.
Apply(t, r) ==
    /\ cycles' = [cycles EXCEPT ![t] = r.task]
    /\ markersLayer' = r.layer
    /\ loadedDistricts' = r.loaded
    /\ districtLayers' = districtLayers \cup (r.loaded \ loadedDistricts)
    /\ loadingProgress' = IF r.task.pc = "between" THEN Progress(r.loaded, index)
                          ELSE loadingProgress

\* Lines 176-178, 207-213: what loadDistrict leaves behind when the fetch or
\* the parse of the district fails.
Rejected(task, code, layer, loaded, idx) ==
    [task |-> AfterLoadDistrict(Failed(task, code), OnError(loaded, code), idx),
     layer |-> layer,
     loaded |-> OnError(loaded, code)]

\* Lines 100-105, 176-178, 207-213: the fetch of a district settles.
FetchSettled(t) ==
    /\ cycles[t].pc = "fetch"
    /\ LET task == cycles[t]
           code == task.visible[task.i + 1]
       IN  \E outcome \in {"neterr", "http", "ok"} :
              IF outcome = "ok"
              THEN /\ cycles' = [cycles EXCEPT ![t].pc = "json"]
                   /\ UNCHANGED <<loadingProgress, loadedDistricts, districtLayers,
                                  markersLayer>>
              ELSE Apply(t, Rejected(task, code, markersLayer, loadedDistricts, index))
    /\ UNCHANGED <<initPc, index, isLoading, files, moves, requests, abortedAt>>
    /\ UNCHANGED popup

\* Lines 105, 176-178, 207-213: response.json() of a district rejects.
JsonRejected(t) ==
    /\ cycles[t].pc = "json"
    /\ LET task == cycles[t]
           code == task.visible[task.i + 1]
       IN  Apply(t, Rejected(task, code, markersLayer, loadedDistricts, index))
    /\ UNCHANGED <<initPc, index, isLoading, files, moves, requests, abortedAt>>
    /\ UNCHANGED popup

\* Lines 105-174, 207-213: the district file parses; ingestion runs to its
\* first suspension.
JsonParsed(t) ==
    /\ cycles[t].pc = "json"
    /\ LET task == cycles[t]
           code == task.visible[task.i + 1]
       IN  Apply(t, Ingest(task, code, files[code], 0, markersLayer,
                           loadedDistricts, index))
    /\ UNCHANGED <<initPc, index, isLoading, files, moves, requests, abortedAt>>
    /\ UNCHANGED popup

\* Lines 162-174, 207-213: the yieldToMain of a chunk expires; ingestion goes on
\* with the next feature.
ChunkResumed(t) ==
    /\ cycles[t].pc = "chunk"
    /\ LET task == cycles[t]
           code == task.visible[task.i + 1]
       IN  Apply(t, Ingest(task, code, files[code], task.fi + 1, markersLayer,
                           loadedDistricts, index))
    /\ UNCHANGED <<initPc, index, isLoading, files, moves, requests, abortedAt>>
    /\ UNCHANGED popup

\* Lines 213-217, 201-205: the yieldToMain between districts expires; the cycle
\* goes on with the next district or ends.
ShardResumed(t) ==
    /\ cycles[t].pc = "between"
    /\ Proceed(t, Advance(cycles[t], cycles[t].i + 1, loadedDistricts, index),
               loadedDistricts, index)
    /\ UNCHANGED <<initPc, index, loadedDistricts, districtLayers, markersLayer,
                   files, moves, abortedAt>>
    /\ UNCHANGED popup

Next ==
    \/ ManifestFetchSettled
    \/ ManifestJsonRejected
    \/ ManifestIncomplete
    \/ ManifestLoaded
    \/ ViewportChange
    \/ \E t \in DOMAIN cycles : FetchSettled(t)
    \/ \E t \in DOMAIN cycles : JsonRejected(t)
    \/ \E t \in DOMAIN cycles : JsonParsed(t)
    \/ \E t \in DOMAIN cycles : ChunkResumed(t)
    \/ \E t \in DOMAIN cycles : ShardResumed(t)

Spec == Init /\ [][Next]_vars

\* A step of a suspended cycle: a fetch or a json() settles, or a setTimeout(0)
\* of yieldToMain (lines 86-88) expires.
CycleStep ==
    \E t \in DOMAIN cycles :
       \/ FetchSettled(t)
       \/ JsonRejected(t)
       \/ JsonParsed(t)
       \/ ChunkResumed(t)
       \/ ShardResumed(t)

\* The sessions in which every pending fetch and json() settles and every
\* timer expires: the event loop runs a ready continuation, and the network
\* answers.
Settling == Spec /\ WF_vars(CycleStep)

\* The district whose fetches never have to settle in the sessions of Hanging.
HungShard == CHOOSE c \in Codes : \A d \in Codes : c <= d

\* A step of a suspended cycle other than the settling of a fetch of HungShard.
StepPastHung ==
    \E t \in DOMAIN cycles :
       \/ FetchSettled(t) /\ cycles[t].visible[cycles[t].i + 1] # HungShard
       \/ JsonRejected(t)
       \/ JsonParsed(t)
       \/ ChunkResumed(t)
       \/ ShardResumed(t)

\* The sessions in which a fetch of HungShard may stay pending for ever (line
\* 100 awaits it with no timeout), everything else settles, and the user goes
\* on moving the map.
Hanging == Spec /\ WF_vars(StepPastHung) /\ WF_vars(ViewportChange)

\* The state after the initial cycle has loaded a catalog of one district
\* whose file has three features, with the properties of the feature whose
\* marker is about to be clicked.
ClickInit ==
    /\ initPc = "ready"
    /\ index = Manifest(<<HungShard>>)
    /\ loadedDistricts = {HungShard}
    /\ districtLayers = {HungShard}
    /\ isLoading = FALSE
    /\ loadingProgress = Progress({HungShard}, Manifest(<<HungShard>>))
    /\ markersLayer = <<Runs[HungShard]["few"][0].buf>>
    /\ cycles = << >>
    /\ files \in {w \in Worlds : w[HungShard] = "few"}
    /\ moves = 0
    /\ requests = [c \in Codes |-> IF c = HungShard THEN 1 ELSE 0]
    /\ abortedAt = -1
    /\ props \in PropertySets
    /\ popupContent = NoPopup

\* Lines 127-134: a marker of the rendering layer is clicked.
MarkerClicked ==
    /\ markersLayer # << >>
    /\ popupContent = NoPopup
    /\ popupContent' = Resolve(props)
    /\ UNCHANGED <<initPc, index, loadedDistricts, districtLayers, isLoading,
                   loadingProgress, markersLayer, cycles, files, moves, requests,
                   abortedAt, props>>

\* The clicks on the markers of a loaded district.
Clicks == ClickInit /\ [][MarkerClicked]_vars

(***************************************************************************)
(* Vocabulary of the properties.                                           *)
(***************************************************************************)

\* The district a cycle is working on.
Current(task) == task.visible[task.i + 1]

\* The number of batches of layer up to n that hold markers of district code.
RECURSIVE PointsIn(_, _, _)
PointsIn(layer, n, code) ==
    IF n = 0 THEN 0
    ELSE PointsIn(layer, n - 1, code)
         + (IF Len(layer[n]) > 0 /\ layer[n][1][1] = code THEN Len(layer[n]) ELSE 0)

\* The number of render points of district code in the rendering layer.
PointsOf(code) == PointsIn(markersLayer, Len(markersLayer), code)

\* The chunks that the ingestion loops can flush.
Chunks == {Runs[c][ds][i].buf : <<c, ds, i>> \in
             UNION {{<<c, ds, i>> : i \in ResumePoints(ds)} : <<c, ds>> \in Codes \X DatasetNames}}

\* What tells the non-empty chunks apart: the first render point and the length.
KeyOf(b) == <<b[1], Len(b)>>

\* The non-empty chunks with their sets of render points, tabulated by key.
ChunkPoints ==
    [key \in {KeyOf(b) : b \in Chunks \ {<< >>}} |->
       LET b == CHOOSE x \in Chunks \ {<< >>} : KeyOf(x) = key
       IN  [batch |-> b, points |-> {b[k] : k \in 1..Len(b)}]]

\* The set of render points of a batch.
PointsInBatch(b) ==
    IF b = << >> THEN {}
    ELSE IF KeyOf(b) \in DOMAIN ChunkPoints /\ ChunkPoints[KeyOf(b)].batch = b
    THEN ChunkPoints[KeyOf(b)].points
    ELSE {b[k] : k \in 1..Len(b)}

\* The members of S that are in none of the first n batches of the layer.
RECURSIVE Outside(_, _)
Outside(S, n) ==
    IF n = 0 THEN S ELSE Outside(S, n - 1) \ PointsInBatch(markersLayer[n])

\* The members of S that are not in the rendering layer.
NotHanded(S) == Outside(S, Len(markersLayer))

\* The render points in the rendering layer.
Handed == UNION {PointsInBatch(markersLayer[b]) : b \in 1..Len(markersLayer)}

\* The render points of the features of each file, for each district, whose
\* geometry has a two-element coordinate pair.
ValidMarkers ==
    [c \in Codes |->
       [ds \in DatasetNames |->
          {Marker(c, i - 1) : i \in {k \in 1..Len(Features(ds)) : Features(ds)[k] = "valid"}}]]

\* The number of features of each file whose geometry or coordinates are absent.
Absent ==
    [ds \in DatasetNames |->
       Cardinality({k \in 1..Len(Features(ds)) : Features(ds)[k] \in {"nogeom", "nocoords"}})]

\* The render points that the features with an absent geometry or absent
\* coordinates would make.
AbsentMarkers ==
    [c \in Codes |->
       [ds \in DatasetNames |->
          {Marker(c, i - 1) :
             i \in {k \in 1..Len(Features(ds)) : Features(ds)[k] \in {"nogeom", "nocoords"}}}]]

\* The number of features of each file.
FeatureCounts == [ds \in DatasetNames |-> Len(Features(ds))]

\* The files all of whose features have a two-element coordinate pair.
ValidFiles == {ds \in DatasetNames : \A k \in 1..Len(Features(ds)) : Features(ds)[k] = "valid"}

\* The number of render points in the first n batches of layer.
RECURSIVE Rendered(_, _)
Rendered(layer, n) == IF n = 0 THEN 0 ELSE Rendered(layer, n - 1) + Len(layer[n])

\* The number of features of the files of the first n districts of cat.
RECURSIVE FeaturesOf(_, _)
FeaturesOf(cat, n) ==
    IF n = 0 THEN 0 ELSE FeaturesOf(cat, n - 1) + FeatureCounts[files[cat[n]]]

\* The districts of a catalog.
Listed(cat) == {cat[k] : k \in 1..Len(cat)}

\* District c is under attempt: a cycle awaits its fetch, its parse or a
\* chunk of its ingestion.
UnderAttempt(c) ==
    \E t \in DOMAIN cycles : cycles[t].pc \in {"fetch", "json", "chunk"} /\ Current(cycles[t]) = c

\* District c of the catalog is not resident although an attempt to load it
\* has ended: it failed.
HasFailed(c) ==
    /\ c \in Listed(index.districts)
    /\ c \notin loadedDistricts
    /\ requests[c] > (IF UnderAttempt(c) THEN 1 ELSE 0)

\* The number of events of kind ev that log records for district c.
CountOf(log, ev, c) == Cardinality({p \in 1..Len(log) : log[p].ev = ev /\ log[p].code = c})

\* The render points of the features of each file that have coordinates, for
\* each district, in the order of the features in the file.
SourceOrder ==
    [c \in Codes |->
       [ds \in DatasetNames |->
          LET WithCoordinates(k) == Features(ds)[k] \in {"valid", "triple", "scalar"}
              kept == SelectSeq([k \in 1..Len(Features(ds)) |-> k], WithCoordinates)
          IN  [j \in 1..Len(kept) |-> Marker(c, kept[j] - 1)]]]

\* The batches of the rendering layer that hold render points of district c.
BatchesOf(c) ==
    LET OfDistrict(b) == Len(b) > 0 /\ b[1][1] = c
    IN  SelectSeq(markersLayer, OfDistrict)

\* How far into src the first n batches of bs reach when they are consecutive
\* pieces of src from its start, and -1 when they are not.
RECURSIVE Pieces(_, _, _)
Pieces(bs, n, src) ==
    IF n = 0 THEN 0
    ELSE LET o == Pieces(bs, n - 1, src) IN
         IF o < 0 \/ o + Len(bs[n]) > Len(src) THEN -1
         ELSE IF SubSeq(src, o + 1, o + Len(bs[n])) # bs[n] THEN -1
         ELSE o + Len(bs[n])

\* The logical attributes of a popup.
Attributes == {"species", "commonName", "diameter", "height", "district", "neighborhood"}

\* The candidate keys of each attribute in priority order, short form first.
Candidates ==
    [species      |-> <<"sn", "species", "Nombre científico">>,
     commonName   |-> <<"cn", "common_name", "CODIGO_ESP">>,
     diameter     |-> <<"d", "diameter">>,
     height       |-> <<"h", "height">>,
     district     |-> <<"dt", "NBRE_DTO">>,
     neighborhood |-> <<"nb", "NBRE_BARRI">>]

\* The default of each attribute.
Defaults ==
    [species |-> "Especie desconocida", commonName |-> "", diameter |-> "N/A",
     height |-> "N/A", district |-> "", neighborhood |-> ""]

\* The unit shown after the value of each attribute.
Units ==
    [species |-> "", commonName |-> "", diameter |-> "cm", height |-> "m",
     district |-> "", neighborhood |-> ""]

\* The value of the first candidate key of attr that p holds with a value of
\* one of the kinds filled, and the default of attr when there is none.
FirstFilled(p, attr, filled) ==
    LET cand == Candidates[attr]
        hits == {k \in 1..Len(cand) : p[cand[k]] \in filled}
    IN  IF hits = {} THEN [from |-> "literal", val |-> Defaults[attr], unit |-> ""]
        ELSE LET k == CHOOSE m \in hits : \A n \in hits : m <= n
             IN  [from |-> cand[k], val |-> p[cand[k]], unit |-> Units[attr]]

\* The positions of log that hold an event of one of the kinds evs.
Positions(log, evs) == {p \in 1..Len(log) : log[p].ev \in evs}

\* The districts that log records with an event of one of the kinds evs.
CodesOf(log, evs) == {log[p].code : p \in Positions(log, evs)}

(***************************************************************************)
(* Properties.                                                             *)
(***************************************************************************)

\* C1: at most one load cycle is active at any time, whatever the interleaving
\* of the initial load, viewport changes, fetch completions and yield
\* resumptions, and so at most one district fetch is in flight.
C1_OneCycleAtATime ==
    /\ Len(cycles) <= 1
    /\ Cardinality({t \in DOMAIN cycles : cycles[t].pc \in {"fetch", "json"}}) <= 1

\* A viewport change was delivered while a cycle was waiting for its fetch.
C1_Witness ==
    \E t \in DOMAIN cycles : cycles[t].pc \in {"fetch", "json"} /\ moves > cycles[t].born

\* C2: a district is in the resident set only if it was fetched and every
\* feature of its file with a valid geometry is in the rendering layer; a
\* district whose load failed in the running cycle, or whose fetch or ingestion
\* is in progress, is not in the resident set.
C2_ResidentMeansFullyIngested ==
    /\ \A c \in loadedDistricts :
          requests[c] > 0 /\ NotHanded(ValidMarkers[c][files[c]]) = {}
    /\ \A t \in DOMAIN cycles :
          /\ cycles[t].pc \in {"fetch", "json", "chunk"}
                => Current(cycles[t]) \notin loadedDistricts
          /\ CodesOf(cycles[t].log, {"fail"}) \cap loadedDistricts = {}

\* One district is resident while the ingestion of another is suspended
\* with part of its points already in the rendering layer.
C2_Witness ==
    /\ loadedDistricts # {}
    /\ \E t \in DOMAIN cycles :
          cycles[t].pc = "chunk" /\ PointsOf(Current(cycles[t])) > 0

\* C3: once a district is resident, no step issues a request for it or hands
\* a further render point of it to the rendering layer.
C3_ResidentNeverReloaded ==
    [][\A s \in loadedDistricts :
          requests'[s] = requests[s] /\ PointsOf(s)' = PointsOf(s)]_vars

\* A cycle that started with a district already resident is fetching
\* another district.
C3_Witness ==
    \E t \in DOMAIN cycles :
       cycles[t].before # {} /\ cycles[t].pc = "fetch" /\ cycles[t].born > 0

\* C4: a failed district never aborts the cycle.  When a cycle ends, the
\* districts it attempted, in the order their attempts ended, are exactly the
\* catalog's districts that were not resident when it started, in catalog
\* order, and the resident set is the set it started with plus the districts
\* whose load succeeded, with every failed district absent.
C4_FailureDoesNotAbort ==
    [][\A t \in DOMAIN cycles :
          (cycles[t].pc = "between" /\ Len(cycles') < Len(cycles)) =>
             LET task == cycles[t]
                 Ended(e) == e.ev \in {"ok", "fail"}
                 Missing(c) == c \notin task.before
                 ends == SelectSeq(task.log, Ended)
             IN  /\ [k \in 1..Len(ends) |-> ends[k].code] = SelectSeq(task.visible, Missing)
                 /\ loadedDistricts' = task.before \cup CodesOf(task.log, {"ok"})
                 /\ CodesOf(task.log, {"fail"}) \cap loadedDistricts' = {}]_vars

\* A cycle whose first district failed has loaded a later one and is about
\* to end.
C4_Witness ==
    \E t \in DOMAIN cycles :
       /\ cycles[t].pc = "between"
       /\ cycles[t].i = Len(cycles[t].visible) - 1
       /\ \E p, q \in 1..Len(cycles[t].log) :
             p < q /\ cycles[t].log[p].ev = "fail" /\ cycles[t].log[q].ev = "ok"

\* C5: once the manifest load has failed, initialize stays aborted (the
\* manifest is not fetched again), no cycle starts, no district is requested,
\* the resident set and the rendering layer stay empty and no progress is
\* reported, whatever viewport changes follow.
C5_AbortedManifestLoadsNothing ==
    /\ [](initPc = "aborted" =>
            /\ cycles = << >>
            /\ ~isLoading
            /\ loadedDistricts = {}
            /\ markersLayer = << >>
            /\ loadingProgress = Preparing
            /\ \A c \in Codes : requests[c] = 0)
    /\ [][initPc = "aborted" => initPc' = "aborted"]_vars

\* A viewport change was delivered after initialize gave up on a manifest
\* that had been stored.
C5_Witness ==
    initPc = "aborted" /\ ~index.isNull /\ Len(index.districts) > 0 /\ moves > abortedAt

\* C6: the resident set only grows.
C6_ResidentSetGrows ==
    [][loadedDistricts \subseteq loadedDistricts']_vars

\* A cycle started by a viewport change with a district resident has seen a
\* load fail.
C6_Witness ==
    \E t \in DOMAIN cycles :
       /\ cycles[t].before # {}
       /\ cycles[t].born > 0
       /\ CodesOf(cycles[t].log, {"fail"}) # {}
       /\ loadedDistricts # {}

\* C7: within a cycle a district is fetched only when every earlier district
\* of the catalog either was resident or has had its attempt end, and, unless
\* it is the first fetch of the cycle, right after the end of the previous
\* attempt, its progress report and one yield to the event loop.
C7_OneShardAtATimeInCatalogOrder ==
    \A t \in DOMAIN cycles :
       LET log == cycles[t].log
           vis == cycles[t].visible
           PosOf(c) == CHOOSE k \in 1..Len(vis) : vis[k] = c
       IN  \A p \in Positions(log, {"fetch"}) :
              /\ \A k \in 1..(PosOf(log[p].code) - 1) :
                    \/ vis[k] \in cycles[t].before
                    \/ \E q \in 1..(p - 1) :
                          log[q].ev \in {"ok", "fail"} /\ log[q].code = vis[k]
              /\ p > 1 => /\ p > 3
                          /\ log[p - 1].ev = "pause"
                          /\ log[p - 2].ev = "progress"
                          /\ log[p - 3].ev \in {"ok", "fail"}
              /\ \A q \in Positions(log, {"fetch"}) :
                    q < p => \E r \in (q + 1)..(p - 1) :
                               log[r].ev \in {"ok", "fail"} /\ log[r].code = log[q].code

\* A cycle is fetching a second district after the attempt for an earlier
\* one failed.
C7_Witness ==
    \E t \in DOMAIN cycles :
       /\ cycles[t].pc = "fetch"
       /\ CodesOf(cycles[t].log, {"fail"}) # {}

\* C8: every attempt of a cycle, successful or failed, is followed at once by
\* one progress report, and reports follow nothing else; the report carries
\* the size of the resident set (unchanged by a failed attempt) and the
\* number of districts of the catalog, and the percentage shown is their
\* ratio in percent rounded to the nearest integer.
C8_ProgressAfterEachAttempt ==
    \A t \in DOMAIN cycles :
       LET log == cycles[t].log
           OkBefore(p) == {log[q].code : q \in {r \in Positions(log, {"ok"}) : r <= p}}
       IN  /\ \A p \in Positions(log, {"ok", "fail"}) :
                 /\ p < Len(log)
                 /\ log[p + 1].ev = "progress"
                 /\ log[p + 1].code = Cardinality(cycles[t].before \cup OkBefore(p))
                 /\ log[p + 1].n = Len(index.districts)
           /\ \A p \in Positions(log, {"progress"}) :
                 p > 1 /\ log[p - 1].ev \in {"ok", "fail"}
           /\ cycles[t].pc = "between" =>
                 /\ loadingProgress.text = "Distritos"
                 /\ loadingProgress.loaded = Cardinality(loadedDistricts)
                 /\ loadingProgress.total = Len(index.districts)
                 /\ LET d == loadingProgress.percentage * loadingProgress.total
                              - 100 * loadingProgress.loaded
                    IN  2 * d <= loadingProgress.total /\ -2 * d < loadingProgress.total

\* A failed attempt has reported a resident count that an earlier success of
\* the same cycle had raised.
C8_Witness ==
    \E t \in DOMAIN cycles :
       /\ cycles[t].pc = "between"
       /\ \E p, q \in 1..Len(cycles[t].log) :
             p < q /\ cycles[t].log[p].ev = "ok" /\ cycles[t].log[q].ev = "fail"
       /\ loadingProgress.loaded > 0

C10_NoFeatureTwice ==
    \A c \in Codes : PointsOf(c) = Cardinality({m \in Handed : m[1] = c})

\* C11: when the manifest has loaded, every district file of the catalog holds
\* only valid geometries and no attempt of a load cycle (the initial one
\* included) fails, the cycle ends, and it ends with every district of the
\* catalog resident, as many render points in the rendering layer as the
\* files have features, and the progress text at total/total (100%); with an
\* empty catalog the cycle ends at once and reports nothing.
C11_CleanCycleLoadsEverything ==
    /\ [][\A t \in DOMAIN cycles :
            (/\ cycles[t].pc = "between"
             /\ Len(cycles') < Len(cycles)
             /\ CodesOf(cycles[t].log, {"fail"}) = {}
             /\ \A c \in Listed(index.districts) : files[c] \in ValidFiles)
            => /\ ~isLoading'
               /\ loadedDistricts' = Listed(index.districts)
               /\ Rendered(markersLayer', Len(markersLayer'))
                     = FeaturesOf(index.districts, Len(index.districts))
               /\ loadingProgress'.loaded = Len(index.districts)
               /\ loadingProgress'.total = Len(index.districts)
               /\ loadingProgress'.percentage = 100]_vars
    /\ [][(initPc = "manifestJson" /\ initPc' = "ready" /\ index'.districts = << >>)
            => cycles' = << >> /\ ~isLoading' /\ loadingProgress' = Preparing]_vars
    /\ (\E t \in DOMAIN cycles : CodesOf(cycles[t].log, {"fail"}) = {})
          ~> (cycles = << >> \/ \E t \in DOMAIN cycles : CodesOf(cycles[t].log, {"fail"}) # {})

\* The initial cycle, with no viewport change delivered, has ended with two
\* districts of 3 and 5 features resident, 8 render points and "2 / 2 (100%)".
C11_Witness ==
    /\ initPc = "ready" /\ moves = 0 /\ cycles = << >> /\ ~isLoading
    /\ Cardinality(loadedDistricts) = 2
    /\ Len(index.districts) = 2
    /\ {files[c] : c \in loadedDistricts} = {"few", "five"}
    /\ Rendered(markersLayer, Len(markersLayer)) = 8
    /\ loadingProgress = [text |-> "Distritos", loaded |-> 2, total |-> 2, percentage |-> 100]

\* C12: failures are not remembered.  A district whose attempt failed is not
\* resident; a viewport change delivered when no cycle is active starts a
\* cycle that at once fetches the first district of the catalog that is not
\* resident, however many times it was fetched before; every cycle fetches
\* each district that was not resident when it started, in its turn; between
\* cycles the resident set does not change; and a district fetched again
\* whose fetch and parse succeed is resident when its ingestion ends.
C12_FailedShardIsFetchedAgain ==
    /\ [][(moves' = moves + 1 /\ initPc = "ready" /\ ~isLoading) =>
            LET cat == index.districts
                miss == {k \in 1..Len(cat) : cat[k] \notin loadedDistricts}
            IN  IF miss = {} THEN cycles' = << >> /\ requests' = requests
                ELSE LET k == CHOOSE m \in miss : \A n \in miss : m <= n
                     IN  /\ Len(cycles') = 1
                         /\ cycles'[1].pc = "fetch"
                         /\ Current(cycles'[1]) = cat[k]
                         /\ requests' = [requests EXCEPT ![cat[k]] = @ + 1]]_vars
    /\ [](\A t \in DOMAIN cycles :
            LET task == cycles[t]
                upto == IF task.pc = "between" THEN task.i + 1 ELSE task.i
            IN  /\ \A k \in 1..upto :
                      task.visible[k] \notin task.before
                         => task.visible[k] \in CodesOf(task.log, {"fetch"})
                /\ task.pc \in {"fetch", "json", "chunk"}
                      => Current(task) \in CodesOf(task.log, {"fetch"})
                /\ CodesOf(task.log, {"fail"}) \cap loadedDistricts = {})
    /\ [][cycles = << >> => loadedDistricts' = loadedDistricts]_vars
    /\ [][\A t \in DOMAIN cycles :
            (/\ cycles[t].born > 0
             /\ requests[Current(cycles[t])] >= 2
             /\ cycles[t].pc \in {"json", "chunk"}
             /\ t \in DOMAIN cycles'
             /\ cycles'[t].pc = "between"
             /\ cycles'[t].fi # cycles[t].fi)
            => Current(cycles[t]) \in loadedDistricts']_vars

\* C13: a malformed feature is never a district-level error: an ingestion that
\* is under way (the fetch and the parse succeeded) ends with the district
\* resident, whatever geometries its features have.
C13_MalformedFeatureNeverFailsShard ==
    [][\A t \in DOMAIN cycles :
          (cycles[t].pc = "chunk" /\ t \in DOMAIN cycles' /\ cycles'[t].pc = "between")
             => Current(cycles[t]) \in loadedDistricts']_vars

\* C14: a viewport change delivered while a cycle is active changes nothing
\* but the count of events: the resident set, the flag, the progress text,
\* the rendering layer, the request counts and the suspended cycle stay as
\* they are.  It is not queued: the step that ends a cycle leaves no cycle
\* and issues no request, and a cycle starts only in a step that delivers a
\* viewport change with the flag clear, or in the step of initialize that
\* stores the manifest.
C14_ViewportChangeWhileLoadingIsNoOp ==
    /\ [][(moves' = moves + 1 /\ isLoading) =>
            UNCHANGED <<initPc, index, loadedDistricts, districtLayers, isLoading,
                        loadingProgress, markersLayer, cycles, files, requests,
                        abortedAt>>]_vars
    /\ [][Len(cycles') < Len(cycles) =>
            cycles' = << >> /\ ~isLoading' /\ requests' = requests]_vars
    /\ [][(cycles = << >> /\ (cycles' # << >> \/ requests' # requests)) =>
            \/ moves' = moves + 1 /\ ~isLoading /\ initPc = "ready"
            \/ initPc = "manifestJson" /\ initPc' = "ready"]_vars
    /\ [](isLoading <=> cycles # << >>)

\* Two viewport changes were delivered while the initial cycle was suspended
\* in the ingestion of a district or between two districts.
C14_Witness ==
    \E t \in DOMAIN cycles :
       /\ cycles[t].born = 0
       /\ moves = 2
       /\ cycles[t].pc \in {"chunk", "between"}

\* C15 as stated: every viewport change delivered after the manifest has
\* loaded, while some district of the catalog has failed, starts a cycle
\* (which fetches that district again).
C15_Original ==
    [][(moves' = moves + 1 /\ initPc = "ready" /\ \E c \in Codes : HasFailed(c)) =>
         \E t \in DOMAIN cycles' : cycles'[t].born = moves']_vars

\* C15 amended: every viewport change delivered after the manifest has
\* loaded while no cycle is active, with some district of the catalog
\* failed, starts a cycle over the whole catalog; a cycle that has districts
\* to attempt comes to have fetched every one of them, when the attempts
\* settle; and each of these fetches is a new request.
C15_IdleViewportChangeRetries ==
    /\ [][(moves' = moves + 1 /\ initPc = "ready" /\ ~isLoading
              /\ \E c \in Codes : HasFailed(c)) =>
            \E t \in DOMAIN cycles' :
               /\ cycles'[t].born = moves'
               /\ cycles'[t].visible = index.districts
               /\ cycles'[t].before = loadedDistricts]_vars
    /\ [][\A c \in Codes :
            (\E t \in DOMAIN cycles' :
                /\ c \in CodesOf(cycles'[t].log, {"fetch"})
                /\ \A u \in DOMAIN cycles :
                      cycles[u].born = cycles'[t].born
                         => c \notin CodesOf(cycles[u].log, {"fetch"}))
            => requests'[c] = requests[c] + 1]_vars
    /\ (\E t \in DOMAIN cycles :
           Listed(cycles[t].visible) \ cycles[t].before
              # CodesOf(cycles[t].log, {"fetch"}))
          ~> (\E t \in DOMAIN cycles :
                /\ CodesOf(cycles[t].log, {"fetch"}) # {}
                /\ Listed(cycles[t].visible) \ cycles[t].before
                      = CodesOf(cycles[t].log, {"fetch"}))

\* A district has been fetched by the initial cycle and by the cycles of two
\* viewport changes, and is still not resident.
C15_Witness ==
    \E c \in Codes : requests[c] >= 3 /\ HasFailed(c) /\ cycles = << >>

\* C16: if the fetch of one district never settles, every other district of
\* the catalog comes to be resident unless an attempt for it fails, and a
\* viewport change made afterwards starts a cycle.
C16_HungFetchStallsOnlyItsShard ==
    <>[](\E t \in DOMAIN cycles : cycles[t].pc = "fetch" /\ Current(cycles[t]) = HungShard)
    => /\ <>(\A c \in Listed(index.districts) \ {HungShard} :
                c \in loadedDistricts \/ HasFailed(c))
       /\ <>(\E t, u \in DOMAIN cycles :
                /\ cycles[t].pc = "fetch" /\ Current(cycles[t]) = HungShard
                /\ cycles[u].born > cycles[t].born)

\* C17: an ingestion that has ended well has yielded
\* floor((N - 1) / chunkSize) times, N being the number of features of the
\* file whose geometry has a two-element coordinate pair.
C17_YieldsAreFloorOfValidCount ==
    \A t \in DOMAIN cycles :
       \A c \in CodesOf(cycles[t].log, {"ok"}) :
          CountOf(cycles[t].log, "yield", c)
             = (Cardinality(ValidMarkers[c][files[c]]) - 1) \div chunkSize

\* C18: no batch handed to the rendering layer holds more than chunkSize
\* render points; in the record of a cycle every flush is followed at once by
\* a yield or, being the last of its district, by the end of the attempt;
\* and a district is resident only with all the render points of its file
\* handed over.
C18_BatchesBoundedByChunkSize ==
    /\ \A b \in 1..Len(markersLayer) : Len(markersLayer[b]) <= chunkSize
    /\ \A t \in DOMAIN cycles :
          \A p \in Positions(cycles[t].log, {"flush"}) :
             /\ p < Len(cycles[t].log)
             /\ cycles[t].log[p + 1].ev \in {"yield", "ok"}
             /\ cycles[t].log[p + 1].code = cycles[t].log[p].code
    /\ \A c \in loadedDistricts :
          PointsOf(c) >= FeatureCounts[files[c]] - Absent[files[c]]

C20_Original ==
    popupContent # NoPopup =>
       \A attr \in Attributes :
          popupContent[attr] = FirstFilled(props, attr, {"zero", "text"})

\* C20 amended: every attribute of a popup is the value of the first
\* candidate key, short form before long forms, whose value is truthy
\* (neither missing, nor null, nor the empty string, nor the number 0), shown
\* with its unit for the diameter and the height, and the default of the
\* attribute when there is none; a feature with no candidate key gets
\* every default.
C20_FirstTruthyCandidate ==
    popupContent # NoPopup =>
       /\ \A attr \in Attributes :
             popupContent[attr] = FirstFilled(props, attr, {"text"})
       /\ props = NoProperties =>
             \A attr \in Attributes : popupContent[attr].val = Defaults[attr]

\* A popup was resolved for a feature that holds only the long form of the
\* species, and one for a feature whose short diameter is 0 and whose long
\* diameter is set.
C20_Witness ==
    /\ popupContent # NoPopup
    /\ \/ /\ props["sn"] = "absent" /\ props["species"] = "absent"
          /\ props["Nombre científico"] = "text"
          /\ popupContent.species.from = "Nombre científico"
       \/ /\ props["d"] = "zero" /\ props["diameter"] = "text"
          /\ popupContent.diameter.from = "diameter"

\* C21: at every zoom level getVisibleDistricts returns the districts of the
\* manifest in catalog order once the manifest is stored, and the empty list
\* before; so every cycle lists the whole catalog, whatever the zoom level
\* of the map when it started, and by its end it has fetched every district
\* that was not resident when it started.
C21_EveryShardAlwaysRelevant ==
    /\ [](\A zoom \in Zooms :
            getVisibleDistricts(index, zoom)
               = IF index = Null THEN << >> ELSE index.districts)
    /\ [](\A t \in DOMAIN cycles :
            /\ cycles[t].visible = index.districts
            /\ cycles[t].before \subseteq Listed(index.districts))
    /\ [][\A t \in DOMAIN cycles :
            (cycles[t].pc = "between" /\ Len(cycles') < Len(cycles)) =>
               CodesOf(cycles[t].log, {"fetch"})
                  = Listed(index.districts) \ cycles[t].before]_vars

\* A cycle that a viewport change started with one of two districts
\* resident lists both and is fetching the other.
C21_Witness ==
    \E t \in DOMAIN cycles :
       /\ cycles[t].born > 0
       /\ Len(cycles[t].visible) = 2
       /\ Cardinality(cycles[t].before) = 1
       /\ cycles[t].pc = "fetch"
       /\ cycles[t].i = 1

\* C22: the flag is set exactly while a cycle is suspended; a cycle attempts
\* each district of the catalog at most once; when every fetch, parse and
\* timer settles, a cycle that is active comes to its end; the step that ends
\* it clears the flag whatever successes and failures it saw; and a viewport
\* change delivered afterwards, with a district of the catalog not resident,
\* starts a new cycle.
C22_FlagTracksCycleAndCycleEnds ==
    /\ [](isLoading <=> Len(cycles) = 1)
    /\ [](\A t \in DOMAIN cycles :
            /\ CodesOf(cycles[t].log, {"fetch", "ok", "fail"}) \subseteq Listed(index.districts)
            /\ \A c \in Codes :
                  /\ CountOf(cycles[t].log, "fetch", c) <= 1
                  /\ CountOf(cycles[t].log, "ok", c) + CountOf(cycles[t].log, "fail", c)
                        <= CountOf(cycles[t].log, "fetch", c))
    /\ [][\A t \in DOMAIN cycles :
            (cycles[t].pc = "between" /\ cycles[t].i + 1 >= Len(cycles[t].visible)
               /\ cycles' # cycles)
            => cycles' = << >> /\ ~isLoading']_vars
    /\ [][(moves' = moves + 1 /\ initPc = "ready" /\ ~isLoading
              /\ Listed(index.districts) \ loadedDistricts # {})
            => isLoading' /\ Len(cycles') = 1 /\ cycles'[1].born = moves']_vars
    /\ isLoading ~> ~isLoading

\* A cycle over two districts has ended with one loaded and one failed, the
\* flag is clear, and a viewport change can start the next cycle.
C22_Witness ==
    /\ initPc = "ready" /\ ~isLoading /\ cycles = << >>
    /\ Len(index.districts) = 2
    /\ Cardinality(loadedDistricts) = 1
    /\ \E c \in Codes : HasFailed(c)
    /\ moves < MaxMoves

====
